---- MODULE Spec2Model ----
\* A model of extract_abbrevs.py: the script opens public/en_kjv.json, parses it,
\* extracts the `abbrev` value of every record, prints them, and then prints the
\* entries of a fixed name-to-abbreviation table whose abbreviation was found.
\*
\* One process executes the module's statements in order; `pc` is its position.
\* Standard output is the sequence `out` of lines; a line is the sequence of the
\* text pieces an f-string or literal puts on it (the empty sequence is a blank
\* line). The script is run twice on the same file, so that what one run leaves
\* behind for the next can be observed.
EXTENDS Naturals, Sequences, FiniteSets

VARIABLES
    file,           \* the input file: its condition and the document it holds
    pc,             \* position of the run in the script
    f,              \* the file handle `f`: "none", "open" or "closed"
    data,           \* `data`, the parsed document
    abbreviations,  \* `abbreviations`, the list under construction / extracted
    i,              \* position of the running loop over records / abbreviations
    k,              \* position of the loop over mapping.items()
    out,            \* standard output of the current run
    exit,           \* exit status of the current run: "none", "zero", "nonzero"
    run,            \* which of the two runs is executing
    prevOut,        \* standard output of the previous run
    prevExit        \* exit status of the previous run ("none" before the 2nd run)

vars == <<file, pc, f, data, abbreviations, i, k, out, exit, run, prevOut, prevExit>>

\* ------------------------------------------------------------------ bounds

\* Largest number of elements of the document's top-level sequence.
MaxRecords == 3

\* The JSON string "\ud800": json.load returns it as a str holding a lone
\* surrogate, which no standard-output encoding can encode.
Surrogate == "\\ud800"

\* The `abbrev` values the documents draw from: two that the table does not
\* hold, the first and last abbreviation of the table, and the lone surrogate.
Abbrevs == {"gn", "jo", "1sa", "3jo", Surrogate}

\* ------------------------------------------------------------------ inputs

\* A record with `abbrev`, a record without it, and an element that is no record.
Book(a) == [type |-> "object", keys |-> {"abbrev", "name"}, abbrev |-> a]
NoAbbrevBook == [type |-> "object", keys |-> {"name"}, abbrev |-> ""]
NotABook == [type |-> "string", keys |-> {}, abbrev |-> ""]

Elements == {Book(a) : a \in Abbrevs} \cup {NoAbbrevBook, NotABook}

SeqsUpTo(S, n) == UNION {[1..m -> S] : m \in 0..n}

NoDoc == [top |-> "none", items |-> <<>>]

\* What json.load can return: a top-level array; a top-level object, which
\* iterates as its keys (strings); or a value that is not iterable.
Docs ==
    {[top |-> "array", items |-> s] : s \in SeqsUpTo(Elements, MaxRecords)}
        \cup {[top |-> "object", items |-> s] : s \in SeqsUpTo({NotABook}, 1)}
        \cup {[top |-> "number", items |-> <<>>]}

\* `for book in data` is defined for lists and dicts.
Iterable(d) == d.top \in {"array", "object"}

\* The conditions public/en_kjv.json can be in when the script starts.
Files ==
    {[state |-> s, doc |-> NoDoc] :
        s \in {"missing", "unreadable", "undecodable", "malformed"}}
        \cup {[state |-> "ok", doc |-> d] : d \in Docs}

\* ------------------------------------------------------------------ constants

Label1 == <<"All book abbreviations found in JSON:">>
Blank == <<>>
Label2 == <<"Actual abbreviations for multi-word books:">>

\* print encodes the text for standard output with the strict error handler:
\* a text holding a lone surrogate raises UnicodeEncodeError, and nothing of
\* that print call is written.
Encodable(text) == \A n \in 1..Len(text) : text[n] # Surrogate

\* f"'{key}': '{value}'"
Fmt(key, value) == <<"'", key, "': '", value, "'">>

\* The dict literal, in insertion order.
mapping ==
    << [full_name |-> "1 Samuel",        abbrev |-> "1sa"],
       [full_name |-> "2 Samuel",        abbrev |-> "2sa"],
       [full_name |-> "1 Kings",         abbrev |-> "1ki"],
       [full_name |-> "2 Kings",         abbrev |-> "2ki"],
       [full_name |-> "1 Chronicles",    abbrev |-> "1ch"],
       [full_name |-> "2 Chronicles",    abbrev |-> "2ch"],
       [full_name |-> "1 Corinthians",   abbrev |-> "1co"],
       [full_name |-> "2 Corinthians",   abbrev |-> "2co"],
       [full_name |-> "1 Thessalonians", abbrev |-> "1th"],
       [full_name |-> "2 Thessalonians", abbrev |-> "2th"],
       [full_name |-> "1 Timothy",       abbrev |-> "1ti"],
       [full_name |-> "2 Timothy",       abbrev |-> "2ti"],
       [full_name |-> "1 Peter",         abbrev |-> "1pe"],
       [full_name |-> "2 Peter",         abbrev |-> "2pe"],
       [full_name |-> "1 John",          abbrev |-> "1jo"],
       [full_name |-> "2 John",          abbrev |-> "2jo"],
       [full_name |-> "3 John",          abbrev |-> "3jo"] >>

\* The k-th pair that `for full_name, abbrev in mapping.items()` yields.
M_ItemsAt_Reversed(n) == mapping[Len(mapping) + 1 - n]
ItemsAt(n) == mapping[n]

\* `x in abbreviations` for a list.
InList(x, list) == \E j \in 1..Len(list) : list[j] = x

\* ------------------------------------------------------------------ the run

Init ==
    /\ file \in Files
    /\ pc = "open"
    /\ f = "none"
    /\ data = NoDoc
    /\ abbreviations = <<>>
    /\ i = 1
    /\ k = 1
    /\ out = <<>>
    /\ exit = "none"
    /\ run = 1
    /\ prevOut = <<>>
    /\ prevExit = "none"

\* An unhandled exception: the traceback goes to stderr, the status is nonzero.
Raise ==
    /\ pc' = "failed"
    /\ exit' = "nonzero"

\* open('public/en_kjv.json', 'r', encoding='utf-8')
Open ==
    /\ pc = "open"
    /\ IF file.state \in {"missing", "unreadable"}
       THEN /\ Raise
            /\ UNCHANGED f
       ELSE /\ pc' = "load"
            /\ exit' = exit
            /\ f' = "open"
    /\ UNCHANGED <<file, data, abbreviations, i, k, out, run, prevOut, prevExit>>

\* data = json.load(f), and the end of the with block, which closes f whether
\* or not json.load raised.
M_Load_NoRelease ==
    /\ pc = "load"
    /\ IF file.state \in {"undecodable", "malformed"}
       THEN /\ Raise
            /\ UNCHANGED <<data, f>>
       ELSE /\ data' = file.doc
            /\ pc' = "extract"
            /\ exit' = exit
            /\ f' = "closed"
    /\ UNCHANGED <<file, abbreviations, i, k, out, run, prevOut, prevExit>>
M_Load_PrintFirst ==
    /\ pc = "load"
    /\ f' = "closed"
    /\ IF file.state \in {"undecodable", "malformed"}
       THEN /\ Raise
            /\ UNCHANGED <<data, out>>
       ELSE /\ data' = file.doc
            /\ out' = Append(out, Label1)
            /\ pc' = "extract"
            /\ exit' = exit
    /\ UNCHANGED <<file, abbreviations, i, k, run, prevOut, prevExit>>
Load ==
    /\ pc = "load"
    /\ f' = "closed"
    /\ IF file.state \in {"undecodable", "malformed"}
       THEN /\ Raise
            /\ UNCHANGED data
       ELSE /\ data' = file.doc
            /\ pc' = "extract"
            /\ exit' = exit
    /\ UNCHANGED <<file, abbreviations, i, k, out, run, prevOut, prevExit>>

\* The records of the document, in document order.
Records == data.items

\* abbreviations = [book['abbrev'] for book in data]: one element of the
\* comprehension. book['abbrev'] succeeds on an object that has the key.
M_ExtractNext_Dedup ==
    /\ pc = "extract"
    /\ Iterable(data)
    /\ i <= Len(Records)
    /\ Records[i].type = "object"
    /\ "abbrev" \in Records[i].keys
    /\ abbreviations' =
          IF InList(Records[i].abbrev, abbreviations)
          THEN abbreviations
          ELSE Append(abbreviations, Records[i].abbrev)
    /\ i' = i + 1
    /\ UNCHANGED <<file, pc, f, data, k, out, exit, run, prevOut, prevExit>>
M_ExtractNext_Streaming ==
    /\ pc = "extract"
    /\ Iterable(data)
    /\ i <= Len(Records)
    /\ Records[i].type = "object"
    /\ "abbrev" \in Records[i].keys
    /\ abbreviations' = Append(abbreviations, Records[i].abbrev)
    /\ out' = Append(out, Fmt(Records[i].abbrev, Records[i].abbrev))
    /\ i' = i + 1
    /\ UNCHANGED <<file, pc, f, data, k, exit, run, prevOut, prevExit>>
ExtractNext ==
    /\ pc = "extract"
    /\ Iterable(data)
    /\ i <= Len(Records)
    /\ Records[i].type = "object"
    /\ "abbrev" \in Records[i].keys
    /\ abbreviations' = Append(abbreviations, Records[i].abbrev)
    /\ i' = i + 1
    /\ UNCHANGED <<file, pc, f, data, k, out, exit, run, prevOut, prevExit>>

\* The comprehension raises: `data` is not iterable (TypeError), the element is
\* not subscriptable by a string (TypeError), or it has no 'abbrev' (KeyError).
M_ExtractRaise_Swallowed ==
    /\ pc = "extract"
    /\ \/ ~Iterable(data)
       \/ /\ i <= Len(Records)
          /\ \/ Records[i].type # "object"
             \/ "abbrev" \notin Records[i].keys
    /\ pc' = "failed"
    /\ exit' = "zero"
    /\ UNCHANGED <<file, f, data, abbreviations, i, k, out, run, prevOut, prevExit>>
ExtractRaise ==
    /\ pc = "extract"
    /\ \/ ~Iterable(data)
       \/ /\ i <= Len(Records)
          /\ \/ Records[i].type # "object"
             \/ "abbrev" \notin Records[i].keys
    /\ Raise
    /\ UNCHANGED <<file, f, data, abbreviations, i, k, out, run, prevOut, prevExit>>

\* The comprehension is exhausted; print("All book abbreviations found in JSON:")
PrintLabel1 ==
    /\ pc = "extract"
    /\ Iterable(data)
    /\ i > Len(Records)
    /\ out' = Append(out, Label1)
    /\ pc' = "report1"
    /\ i' = 1
    /\ UNCHANGED <<file, f, data, abbreviations, k, exit, run, prevOut, prevExit>>

\* for abbrev in abbreviations: print(f"'{abbrev}': '{abbrev}'")
PrintAbbrev ==
    /\ pc = "report1"
    /\ i <= Len(abbreviations)
    /\ IF Encodable(Fmt(abbreviations[i], abbreviations[i]))
       THEN /\ out' = Append(out, Fmt(abbreviations[i], abbreviations[i]))
            /\ i' = i + 1
            /\ UNCHANGED <<pc, exit>>
       ELSE /\ Raise
            /\ UNCHANGED <<out, i>>
    /\ UNCHANGED <<file, f, data, abbreviations, k, run, prevOut, prevExit>>

\* The first loop is exhausted; print("\nActual abbreviations for multi-word
\* books:") puts a blank line and the label on standard output.
M_PrintHeader2_OnlyIfMatch ==
    /\ pc = "report1"
    /\ i > Len(abbreviations)
    /\ out' = IF \E n \in 1..Len(mapping) : InList(mapping[n].abbrev, abbreviations)
              THEN out \o <<Blank, Label2>>
              ELSE out
    /\ pc' = "report2"
    /\ k' = 1
    /\ UNCHANGED <<file, f, data, abbreviations, i, exit, run, prevOut, prevExit>>
M_PrintHeader2_OffByOne ==
    /\ pc = "report1"
    /\ i >= Len(abbreviations)
    /\ out' = out \o <<Blank, Label2>>
    /\ pc' = "report2"
    /\ k' = 1
    /\ UNCHANGED <<file, f, data, abbreviations, i, exit, run, prevOut, prevExit>>
PrintHeader2 ==
    /\ pc = "report1"
    /\ i > Len(abbreviations)
    /\ out' = out \o <<Blank, Label2>>
    /\ pc' = "report2"
    /\ k' = 1
    /\ UNCHANGED <<file, f, data, abbreviations, i, exit, run, prevOut, prevExit>>

\* One iteration of `for full_name, abbrev in mapping.items()`:
\* if abbrev in abbreviations: print(f"'{abbrev}': '{full_name}'")
M_CheckMapping_Ungated ==
    /\ pc = "report2"
    /\ k <= Len(mapping)
    /\ out' = Append(out, Fmt(ItemsAt(k).abbrev, ItemsAt(k).full_name))
    /\ k' = k + 1
    /\ UNCHANGED <<file, pc, f, data, abbreviations, i, exit, run, prevOut, prevExit>>
M_CheckMapping_HashOrder ==
    /\ pc = "report2"
    /\ k <= Len(mapping)
    /\ \E t \in {ItemsAt(k), mapping[Len(mapping) + 1 - k]} :
          IF InList(t.abbrev, abbreviations)
          THEN out' = Append(out, Fmt(t.abbrev, t.full_name))
          ELSE out' = out
    /\ k' = k + 1
    /\ UNCHANGED <<file, pc, f, data, abbreviations, i, exit, run, prevOut, prevExit>>
CheckMapping ==
    /\ pc = "report2"
    /\ k <= Len(mapping)
    /\ IF InList(ItemsAt(k).abbrev, abbreviations)
       THEN out' = Append(out, Fmt(ItemsAt(k).abbrev, ItemsAt(k).full_name))
       ELSE out' = out
    /\ k' = k + 1
    /\ UNCHANGED <<file, pc, f, data, abbreviations, i, exit, run, prevOut, prevExit>>

\* The second loop is exhausted: the end of the module, exit status 0.
Finish ==
    /\ pc = "report2"
    /\ k > Len(mapping)
    /\ pc' = "done"
    /\ exit' = "zero"
    /\ UNCHANGED <<file, f, data, abbreviations, i, k, out, run, prevOut, prevExit>>

Terminal == pc \in {"done", "failed"}

\* The script is started again on the same, unmodified file. Every name of the
\* module is bound afresh; nothing but the file is shared with the first run.
Restart ==
    /\ Terminal
    /\ run = 1
    /\ run' = 2
    /\ prevOut' = out
    /\ prevExit' = exit
    /\ pc' = "open"
    /\ f' = "none"
    /\ data' = NoDoc
    /\ abbreviations' = <<>>
    /\ i' = 1
    /\ k' = 1
    /\ out' = <<>>
    /\ exit' = "none"
    /\ UNCHANGED file

Next ==
    \/ Open
    \/ Load
    \/ ExtractNext
    \/ ExtractRaise
    \/ PrintLabel1
    \/ PrintAbbrev
    \/ PrintHeader2
    \/ CheckMapping
    \/ Finish
    \/ Restart

Spec == Init /\ [][Next]_vars

\* The interpreter executes the next statement of a running script: a run never
\* stops short of its end.
FairSpec == Spec /\ WF_vars(Next)

TypeOK ==
    /\ file \in Files
    /\ pc \in {"open", "load", "extract", "report1", "report2", "done", "failed"}
    /\ f \in {"none", "open", "closed"}
    /\ exit \in {"none", "zero", "nonzero"}
    /\ run \in {1, 2}

\* ------------------------------------------------------------------ properties
\* What the properties say about a run is stated over the input file, not over
\* the script's own variables.

InputItems == file.doc.items
N == Len(InputItems)

HasAbbrev(e) == e.type = "object" /\ "abbrev" \in e.keys

\* The document is a sequence of records each having `abbrev`.
ValidDoc ==
    /\ file.state = "ok"
    /\ file.doc.top = "array"
    /\ \A j \in 1..N : HasAbbrev(InputItems[j])

\* Some record of the document lacks `abbrev`.
HasMissing ==
    /\ file.state = "ok"
    /\ file.doc.top = "array"
    /\ \E j \in 1..N : InputItems[j].type = "object" /\ ~HasAbbrev(InputItems[j])

\* The abbreviation occurs among the document's `abbrev` values.
Present(a) == \E j \in 1..N : HasAbbrev(InputItems[j]) /\ InputItems[j].abbrev = a

Occurrences(a) ==
    Cardinality({j \in 1..N : HasAbbrev(InputItems[j]) /\ InputItems[j].abbrev = a})

\* Standard output can encode the value (it is not the lone surrogate).
CanEncode(a) == a # "\\ud800"

AllEncodable == \A j \in 1..N : HasAbbrev(InputItems[j]) => CanEncode(InputItems[j].abbrev)

\* The position of the first record whose value cannot be encoded.
FirstBad ==
    CHOOSE j \in 1..N :
        /\ ~CanEncode(InputItems[j].abbrev)
        /\ \A l \in 1..(j - 1) : CanEncode(InputItems[l].abbrev)

\* The text '<x>': '<y>' as one line.
Line(x, y) == <<"'", x, "': '", y, "'">>

TableLine(n) == Line(mapping[n].abbrev, mapping[n].full_name)

Count(line, seq) == Cardinality({j \in 1..Len(seq) : seq[j] = line})

\* The number of table pairs whose abbreviation is in the document.
M == Cardinality({n \in 1..Len(mapping) : Present(mapping[n].abbrev)})

\* The data lines of the second report: what follows the label, blank line and
\* second label of a run that got that far.
SecondData == SubSeq(out, N + 4, Len(out))

FirstReportDone == pc \in {"report2", "done"}

\* The complete first report: the label line, then for each record in document
\* order the line '<a_j>': '<a_j>', then the blank line opening the second report.
FirstReportFull ==
    /\ Len(out) >= N + 3
    /\ out[1] = <<"All book abbreviations found in JSON:">>
    /\ \A j \in 1..N :
          out[j + 1] = Line(InputItems[j].abbrev, InputItems[j].abbrev)
    /\ out[N + 2] = Blank
    /\ out[N + 3] = Label2

\* C1 as claimed: for every document of N records each having `abbrev`, the
\* run ends with the first report being the label line followed by exactly N
\* lines, the j-th being '<a_j>': '<a_j>', duplicates kept.
C1_Original ==
    /\ (ValidDoc /\ FirstReportDone) => FirstReportFull
    /\ (ValidDoc /\ Terminal) => (pc = "done" /\ FirstReportFull)

\* C1, amended: for a document of N records each having `abbrev`, while the
\* first report is printed it is the label line followed by the lines
\* '<a_j>': '<a_j>' of the first records in document order; when every value
\* can be encoded the run ends with the label line and exactly N such lines,
\* duplicates kept; otherwise the run fails at the first value that cannot be
\* encoded, with the label line and the lines of the records before it output.
C1_FirstReport ==
    /\ (ValidDoc /\ pc = "report1") =>
          /\ Len(out) = i
          /\ out[1] = Label1
          /\ \A j \in 1..(i - 1) :
                out[j + 1] = Line(InputItems[j].abbrev, InputItems[j].abbrev)
    /\ (ValidDoc /\ FirstReportDone) => (AllEncodable /\ FirstReportFull)
    /\ (ValidDoc /\ AllEncodable /\ Terminal) => pc = "done"
    /\ (ValidDoc /\ ~AllEncodable /\ Terminal) =>
          /\ pc = "failed"
          /\ Len(out) = FirstBad
          /\ out[1] = Label1
          /\ \A j \in 1..(FirstBad - 1) :
                out[j + 1] = Line(InputItems[j].abbrev, InputItems[j].abbrev)

\* A finished run on three records, the first two with the same abbreviation.
C1_Witness ==
    /\ pc = "done"
    /\ ValidDoc
    /\ N = 3
    /\ InputItems[1].abbrev = InputItems[2].abbrev
    /\ InputItems[3].abbrev # InputItems[1].abbrev

\* C2: in a finished run, every pair of the 17-entry table has its line
\* '<abbrev>': '<full_name>' in the second report exactly once if its
\* abbreviation occurs in the document (however often) and not at all
\* otherwise; every data line of the second report is such a line; for
\* [gn, 1sa, jo] the only data line is '1sa': '1 Samuel'.
C2_MembershipGated ==
    pc = "done" =>
        /\ Len(mapping) = 17
        /\ \A n \in 1..Len(mapping) :
              Count(TableLine(n), SecondData) =
                  IF Present(mapping[n].abbrev) THEN 1 ELSE 0
        /\ \A j \in 1..Len(SecondData) :
              \E n \in 1..Len(mapping) :
                  /\ SecondData[j] = TableLine(n)
                  /\ Present(mapping[n].abbrev)
        /\ InputItems = <<Book("gn"), Book("1sa"), Book("jo")>> =>
              SecondData = << Line("1sa", "1 Samuel") >>

\* A finished run whose document holds a table abbreviation more than once.
C2_Witness ==
    /\ pc = "done"
    /\ Occurrences("1sa") >= 2
    /\ ~Present("3jo")

\* C3: the data lines of the second report are in the table's declared order,
\* whatever the order of the records: of two data lines the earlier one is the
\* line of the pair declared earlier; with both 1sa and 3jo in the document the
\* line of 1 Samuel comes right before the line of 3 John.
C3_TableOrder ==
    pc \in {"report2", "done"} =>
        /\ \A x, y \in 1..Len(SecondData) :
              x < y =>
                  \E m, n \in 1..Len(mapping) :
                      /\ m < n
                      /\ SecondData[x] = TableLine(m)
                      /\ SecondData[y] = TableLine(n)
        /\ (pc = "done" /\ Present("1sa") /\ Present("3jo")) =>
              SecondData = << Line("1sa", "1 Samuel"), Line("3jo", "3 John") >>

\* A finished run whose document has 3jo before 1sa.
C3_Witness ==
    /\ pc = "done"
    /\ N >= 2
    /\ InputItems[1] = Book("3jo")
    /\ InputItems[N] = Book("1sa")

\* C4: when some record lacks `abbrev`, at whatever position, no line is ever
\* output and the run does not complete: it can only end in failure.
C4_MissingKeyNoOutput ==
    HasMissing =>
        /\ out = <<>>
        /\ pc # "done"
        /\ pc \notin {"report1", "report2"}
        /\ Terminal => (pc = "failed" /\ exit = "nonzero")

\* The run failed on a last record without `abbrev`, after extracting the
\* values of the well-formed records before it.
C4_Witness ==
    /\ pc = "failed"
    /\ N = MaxRecords
    /\ \A j \in 1..(N - 1) : HasAbbrev(InputItems[j])
    /\ InputItems[N] = NoAbbrevBook
    /\ Len(abbreviations) = N - 1
    /\ out = <<>>

\* C5 as claimed: a run that ends has either emitted both reports completely
\* or nothing: a failed run has no output, a missing, unreadable or malformed
\* file gives no output, and a run that has output does not fail.
C5_Original ==
    /\ pc = "failed" => out = <<>>
    /\ file.state # "ok" => out = <<>>
    /\ out # <<>> => (pc # "failed" /\ exit # "nonzero")
    /\ pc = "done" =>
          /\ Len(out) = N + 3 + M
          /\ out[1] = Label1
          /\ out[N + 3] = Label2

\* C5, amended: a run that finishes has emitted both reports completely; a
\* missing, unreadable or malformed file gives no output, and so does every
\* failure of loading or extraction; the one failure after the first line is
\* that of printing a first-report line whose value cannot be encoded, which
\* leaves the label line and the lines before it as the whole output (nothing
\* of the second report).
C5_NoPartialOutput ==
    /\ file.state # "ok" => out = <<>>
    /\ (pc = "failed" /\ ~(ValidDoc /\ ~AllEncodable)) => out = <<>>
    /\ (pc = "failed" /\ out # <<>>) =>
          /\ ValidDoc
          /\ ~AllEncodable
          /\ Len(out) = FirstBad
          /\ out[1] = Label1
          /\ \A j \in 1..Len(out) : out[j] \notin {Blank, Label2}
    /\ pc = "done" =>
          /\ Len(out) = N + 3 + M
          /\ out[1] = Label1
          /\ out[N + 3] = Label2

\* A run failed printing its third record's line, two lines after the label.
C5_Witness ==
    /\ pc = "failed"
    /\ Len(out) = 3
    /\ out[1] = Label1

\* Both reports have been emitted completely.
BothReports ==
    /\ Len(out) = N + 3 + M
    /\ out[1] = Label1
    /\ out[N + 3] = Label2
    /\ \A n \in 1..Len(mapping) :
          Present(mapping[n].abbrev) => Count(TableLine(n), SecondData) = 1

\* The inputs the exit status is nonzero for: the file is missing, unreadable
\* or not valid structured data, or some record lacks `abbrev`.
BadInput == file.state # "ok" \/ HasMissing

\* C6 as claimed, at the end of a run: the exit status is zero exactly when
\* both reports were completed, nonzero for a bad input, and zero for every
\* document of records each having `abbrev`.
C6_Original ==
    Terminal =>
        /\ exit = "zero" <=> (pc = "done" /\ BothReports)
        /\ BadInput => exit = "nonzero"
        /\ ValidDoc => exit = "zero"

\* C6, amended: every run terminates; at its end the exit status is zero
\* exactly when both reports were completed; it is nonzero for a bad input and
\* for a document with a value that cannot be encoded, and zero for a document
\* of records each having an `abbrev` that can be encoded (also the empty one).
C6_ExitStatus ==
    /\ [](Terminal => (exit = "zero" <=> (pc = "done" /\ BothReports)))
    /\ [](Terminal => exit \in {"zero", "nonzero"})
    /\ []((Terminal /\ BadInput) => exit = "nonzero")
    /\ []((Terminal /\ ValidDoc /\ ~AllEncodable) => exit = "nonzero")
    /\ []((Terminal /\ ValidDoc /\ AllEncodable) => exit = "zero")
    /\ \A r \in {1, 2} : (run = r) ~> (run = r /\ Terminal)

\* A run on the empty document ended with status zero.
C6_Witness ==
    /\ pc = "done"
    /\ ValidDoc
    /\ N = 0
    /\ exit = "zero"

\* C7: the second run on the same file emits what the first run emitted, line
\* by line, and ends the way the first run ended.
C7_Deterministic ==
    run = 2 =>
        /\ Len(out) <= Len(prevOut)
        /\ out = SubSeq(prevOut, 1, Len(out))
        /\ Terminal => (out = prevOut /\ exit = prevExit)

\* The second run finished both reports on a document of several records.
C7_Witness ==
    /\ run = 2
    /\ pc = "done"
    /\ N >= 2
    /\ M >= 1

\* C8: the file handle is not open when the run has ended, however it ended,
\* nor during extraction, nor once anything has been printed.
C8_HandleReleased ==
    /\ Terminal => f # "open"
    /\ pc \in {"extract", "report1", "report2", "done"} => f = "closed"
    /\ out # <<>> => f = "closed"
    /\ (pc = "failed" /\ file.state \in {"ok", "undecodable", "malformed"}) =>
          f = "closed"

\* The run failed in json.load, with the handle open before it.
C8_Witness ==
    /\ pc = "failed"
    /\ file.state = "malformed"
    /\ f = "closed"

\* C9: a finished run has printed the second report's header, a blank line and
\* then the label, exactly once, also when no table pair matches: then the
\* label is the last line.
C9_HeaderOnce ==
    pc = "done" =>
        /\ Count(Label2, out) = 1
        /\ Count(Blank, out) = 1
        /\ out[N + 2] = Blank
        /\ out[N + 3] = <<"Actual abbreviations for multi-word books:">>
        /\ M = 0 => Len(out) = N + 3

\* A finished run on a non-empty document without any table abbreviation.
C9_Witness ==
    /\ pc = "done"
    /\ N >= 1
    /\ M = 0

\* C10: the steps do not interleave: nothing is printed before all N values
\* are extracted; the first label is line 1, the lines of the first report are
\* lines 2..N+1, the blank line and second label are lines N+2 and N+3, the
\* table lines come after; a finished run has N + 3 + M lines, M <= 17.
C10_PhaseOrder ==
    /\ out # <<>> =>
          /\ pc \notin {"open", "load", "extract"}
          /\ Len(abbreviations) = N
    /\ \A j \in 1..Len(out) :
          /\ out[j] = Label1 => j = 1
          /\ (\E a \in Abbrevs : out[j] = Line(a, a)) => (2 <= j /\ j <= N + 1)
          /\ out[j] = Blank => j = N + 2
          /\ out[j] = Label2 => j = N + 3
          /\ (\E n \in 1..Len(mapping) : out[j] = TableLine(n)) => j >= N + 4
    /\ pc = "done" =>
          /\ Len(out) = N + 3 + M
          /\ M <= 17

\* A finished run with three records and two matching table pairs.
C10_Witness ==
    /\ pc = "done"
    /\ N = 3
    /\ M = 2
====
